---- MODULE Spec2Model ----
(***************************************************************************)
(* A model of the NFC card service of src/src/sys/main.rs: the Permissions *)
(* bitmask, the Card value with its JSON byte encoding, the Kernel backend *)
(* (SystemBase) and the NfcService registry.                               *)
(*                                                                         *)
(* Byte buffers are sequences of bytes, each a one-character string for an *)
(* ASCII byte ("\n", "\t", "\r", "\f" for the control characters that have  *)
(* a string literal, ControlChar for all 32 of them, Del for 0x7F) and     *)
(* HighByte for the bytes from 0x80 on.  The characters of a decoded       *)
(* string are the ASCII ones and, for a character outside ASCII (from a \u *)
(* escape or from its UTF-8 bytes), one of two opaque characters, UWs      *)
(* (Unicode White_Space) and UOther, which is all the decoder's later      *)
(* steps (trim, split, flag name lookup) can tell about it.                *)
(***************************************************************************)
EXTENDS Integers, Sequences, FiniteSets, TLC

(***************************************************************************)
(* Bounds of the model.                                                    *)
(***************************************************************************)
\* The registry is driven with NumIds ids: the largest u16 and the smallest
\* NumIds - 1 ids.
NumIds == 3
\* Cards built by Card::new in the codec have ids 0..MaxCodecId, an id of
\* three digits, one of four, and the largest u16.
MaxCodecId == 11
\* A Party is joined while it has fewer than MaxPlayers players.
MaxPlayers == 3

(***************************************************************************)
(* Permissions: bitflags over u8 (main.rs 12-29).                          *)
(***************************************************************************)
U16Max == 65535
U8Max == 255

NONE == 1
REGULAR == 2
IT_SUPPORT == 4
OPEN_DOORS == 8
ADMIN == 16
SUPER_ADMIN == 32

\* The bits of a u8 as a set of bit positions, and back.
BitSet(n) == {i \in 0..7 : (n \div (2 ^ i)) % 2 = 1}

RECURSIVE SumPow(_)
SumPow(S) ==
    IF S = {} THEN 0
    ELSE LET i == CHOOSE x \in S : TRUE IN (2 ^ i) + SumPow(S \ {i})

FromBitSet(S) == SumPow(S)

\* A faulty union: the bits that are in one of the two sets only.
union_xor(a, b) ==
    FromBitSet((BitSet(a) \ BitSet(b)) \cup (BitSet(b) \ BitSet(a)))

\* bitflags' generated set algebra, on the bits.
union(a, b) == FromBitSet(BitSet(a) \cup BitSet(b))
intersection(a, b) == FromBitSet(BitSet(a) \cap BitSet(b))
difference(a, b) == FromBitSet(BitSet(a) \ BitSet(b))
symmetric_difference(a, b) ==
    FromBitSet((BitSet(a) \ BitSet(b)) \cup (BitSet(b) \ BitSet(a)))
contains(a, b) == intersection(a, b) = b
empty == 0

\* The flags in the order of their definition, each with its name.
FLAGS ==
    << [name |-> <<"N", "O", "N", "E">>, bits |-> NONE],
       [name |-> <<"R", "E", "G", "U", "L", "A", "R">>, bits |-> REGULAR],
       [name |-> <<"I", "T", "_", "S", "U", "P", "P", "O", "R", "T">>,
        bits |-> IT_SUPPORT],
       [name |-> <<"O", "P", "E", "N", "_", "D", "O", "O", "R", "S">>,
        bits |-> OPEN_DOORS],
       [name |-> <<"A", "D", "M", "I", "N">>, bits |-> ADMIN],
       [name |-> <<"S", "U", "P", "E", "R", "_", "A", "D", "M", "I", "N">>,
        bits |-> SUPER_ADMIN] >>

RECURSIVE UnionFlags(_)
UnionFlags(n) == IF n = 0 THEN empty ELSE union(UnionFlags(n - 1), FLAGS[n].bits)

\* Permissions::all(): the union of the defined flags.
all == UnionFlags(Len(FLAGS))

\* A faulty privileged(): every flag.
privileged_all == all

\* Permissions::privileged() (main.rs 31-37).
privileged == symmetric_difference(all, NONE)

\* Every value of the Permissions type (from_bits_retain keeps any u8), and
\* those made of recognized flags only.
PermissionsValues == 0..U8Max
RecognizedPermissions == {p \in PermissionsValues : contains(all, p)}

(***************************************************************************)
(* Card (main.rs 47-84).                                                   *)
(***************************************************************************)
Card(id, permissions) == [id |-> id, permissions |-> permissions]

\* Card::new: total, no validation.
CardNew(id, permissions) == Card(id, permissions)

\* Card::default()
CardDefault == CardNew(0, REGULAR)

\* A faulty is: true when the card has one of the requested flags.
CardIsAny(card, perms) == intersection(card.permissions, perms) # empty

\* Card::is
CardIs(card, perms) == contains(card.permissions, perms)

(***************************************************************************)
(* Results.                                                                *)
(***************************************************************************)
Ok(v) == [ok |-> TRUE, val |-> v]
Err(e) == [ok |-> FALSE, err |-> e]

\* A panic that unwinds out of a call whose return type is a Result.
Unwind(message) == [ok |-> FALSE, panic |-> message]
Unwinds(r) == "panic" \in DOMAIN r

\* ConversionError::new (errors.rs 3-13).
ConversionError(message, bytes) == [message |-> message, bytes |-> bytes]

(***************************************************************************)
(* Encoding: serde_json::to_vec(&Card) (main.rs 95, 124), with the derived *)
(* Serialize of Card (main.rs 47-51) and the text form of Permissions      *)
(* (main.rs 14-15: bitflags' serde support writes the flags as a string).  *)
(***************************************************************************)
\* The first position from i on whose character is in S (is not in S), or
\* the position after the end: a scanning loop.
FirstIn(b, i, S) ==
    CHOOSE k \in i..(Len(b) + 1) :
        /\ k = Len(b) + 1 \/ b[k] \in S
        /\ \A m \in i..(k - 1) : b[m] \notin S

FirstNotIn(b, i, S) ==
    CHOOSE k \in i..(Len(b) + 1) :
        /\ k = Len(b) + 1 \/ b[k] \notin S
        /\ \A m \in i..(k - 1) : b[m] \in S

\* The last position up to i whose character is not in S, or 0.
LastNotIn(b, i, S) ==
    CHOOSE k \in 0..i :
        /\ k = 0 \/ b[k] \notin S
        /\ \A m \in (k + 1)..i : b[m] \in S

DigitChar == <<"0", "1", "2", "3", "4", "5", "6", "7", "8", "9">>
HexDigitChar ==
    <<"0", "1", "2", "3", "4", "5", "6", "7", "8", "9", "a", "b", "c", "d", "e", "f">>

\* itoa: the decimal digits of an unsigned integer, no leading zero.
RECURSIVE itoa(_)
itoa(n) ==
    IF n < 10 THEN <<DigitChar[n + 1]>>
    ELSE itoa(n \div 10) \o <<DigitChar[(n % 10) + 1]>>

\* write_hex: "{:x}", lower case, no leading zero.
RECURSIVE write_hex(_)
write_hex(n) ==
    IF n < 16 THEN <<HexDigitChar[n + 1]>>
    ELSE write_hex(n \div 16) \o <<HexDigitChar[(n % 16) + 1]>>

\* bitflags' iter_names from flag idx on: a flag is yielded when the source
\* contains it and it covers bits no earlier flag has covered.
RECURSIVE iter_names(_, _, _)
iter_names(idx, source, remaining) ==
    IF idx > Len(FLAGS) \/ remaining = empty
    THEN [names |-> <<>>, remaining |-> remaining]
    ELSE LET bits == FLAGS[idx].bits IN
         IF contains(source, bits) /\ intersection(remaining, bits) # empty
         THEN LET rest == iter_names(idx + 1, source, difference(remaining, bits))
              IN [names |-> <<FLAGS[idx].name>> \o rest.names,
                  remaining |-> rest.remaining]
         ELSE iter_names(idx + 1, source, remaining)

RECURSIVE JoinNames(_)
JoinNames(names) ==
    IF names = <<>> THEN <<>>
    ELSE IF Len(names) = 1 THEN names[1]
    ELSE names[1] \o <<" ", "|", " ">> \o JoinNames(Tail(names))

\* A faulty writer: it refuses the bits that no name covers.
write_flags_strict(it) ==
    [ok |-> it.remaining = empty, text |-> JoinNames(it.names)]

\* bitflags::parser::to_writer: the names joined by " | ", then the bits no
\* name covers as 0x<hex>.  The writer is serde_json's adapter over a Vec<u8>,
\* whose write_str does not fail.
write_flags(it) ==
    [ok |-> TRUE,
     text |-> JoinNames(it.names)
              \o (IF it.remaining = empty THEN <<>>
                  ELSE (IF it.names = <<>> THEN <<>> ELSE <<" ", "|", " ">>)
                       \o <<"0", "x">> \o write_hex(it.remaining))]

to_writer(flags) == write_flags(iter_names(1, flags, flags))

\* The 32 control characters, 0x00 to 0x1F, at the position of their code
\* plus one; those without a string literal are named by their code.
ControlChar ==
    <<"<00>", "<01>", "<02>", "<03>", "<04>", "<05>", "<06>", "<07>",
      "<08>", "\t", "\n", "<0b>", "\f", "\r", "<0e>", "<0f>",
      "<10>", "<11>", "<12>", "<13>", "<14>", "<15>", "<16>", "<17>",
      "<18>", "<19>", "<1a>", "<1b>", "<1c>", "<1d>", "<1e>", "<1f>">>

\* The 128 bytes 0x80 to 0xFF, at the position of their value minus 127,
\* named by their value.
HighByte ==
    <<"<80>", "<81>", "<82>", "<83>", "<84>", "<85>", "<86>", "<87>",
      "<88>", "<89>", "<8a>", "<8b>", "<8c>", "<8d>", "<8e>", "<8f>",
      "<90>", "<91>", "<92>", "<93>", "<94>", "<95>", "<96>", "<97>",
      "<98>", "<99>", "<9a>", "<9b>", "<9c>", "<9d>", "<9e>", "<9f>",
      "<a0>", "<a1>", "<a2>", "<a3>", "<a4>", "<a5>", "<a6>", "<a7>",
      "<a8>", "<a9>", "<aa>", "<ab>", "<ac>", "<ad>", "<ae>", "<af>",
      "<b0>", "<b1>", "<b2>", "<b3>", "<b4>", "<b5>", "<b6>", "<b7>",
      "<b8>", "<b9>", "<ba>", "<bb>", "<bc>", "<bd>", "<be>", "<bf>",
      "<c0>", "<c1>", "<c2>", "<c3>", "<c4>", "<c5>", "<c6>", "<c7>",
      "<c8>", "<c9>", "<ca>", "<cb>", "<cc>", "<cd>", "<ce>", "<cf>",
      "<d0>", "<d1>", "<d2>", "<d3>", "<d4>", "<d5>", "<d6>", "<d7>",
      "<d8>", "<d9>", "<da>", "<db>", "<dc>", "<dd>", "<de>", "<df>",
      "<e0>", "<e1>", "<e2>", "<e3>", "<e4>", "<e5>", "<e6>", "<e7>",
      "<e8>", "<e9>", "<ea>", "<eb>", "<ec>", "<ed>", "<ee>", "<ef>",
      "<f0>", "<f1>", "<f2>", "<f3>", "<f4>", "<f5>", "<f6>", "<f7>",
      "<f8>", "<f9>", "<fa>", "<fb>", "<fc>", "<fd>", "<fe>", "<ff>">>

\* The bytes below 0x20.
ControlChars == {ControlChar[n] : n \in 1..Len(ControlChar)}

\* The byte of a control character.
ControlCode(c) == (CHOOSE n \in 1..Len(ControlChar) : ControlChar[n] = c) - 1

\* serde_json's escaping of a string's characters (the ESCAPE table and
\* write_char_escape): the quote and the backslash after a backslash, \b,
\* \t, \n, \f and \r for the bytes 0x08, 0x09, 0x0A, 0x0C and 0x0D, and
\* \u00XX with two lower-case hex digits for every other byte below 0x20.
EscapeChar(c) ==
    CASE c = "\"" -> <<"\\", "\"">>
      [] c = "\\" -> <<"\\", "\\">>
      [] c = ControlChar[9] -> <<"\\", "b">>
      [] c = "\t" -> <<"\\", "t">>
      [] c = "\n" -> <<"\\", "n">>
      [] c = "\f" -> <<"\\", "f">>
      [] c = "\r" -> <<"\\", "r">>
      [] c \in ControlChars \ {ControlChar[9], "\t", "\n", "\f", "\r"} ->
             <<"\\", "u", "0", "0", HexDigitChar[(ControlCode(c) \div 16) + 1],
               HexDigitChar[(ControlCode(c) % 16) + 1]>>
      [] OTHER -> <<c>>

\* The characters serde_json writes escaped: the quote, the backslash and
\* every byte below 0x20.
Escaped == {"\"", "\\"} \cup ControlChars

\* format_escaped_str_contents: the text up to the next character to
\* escape is copied, that character is written escaped, and so on.
RECURSIVE format_escaped_str_contents(_)
RECURSIVE format_escaped_at(_, _)
format_escaped_str_contents(s) == format_escaped_at(s, FirstIn(s, 1, Escaped))

format_escaped_at(s, j) ==
    IF j > Len(s) THEN s
    ELSE SubSeq(s, 1, j - 1) \o EscapeChar(s[j])
         \o format_escaped_str_contents(SubSeq(s, j + 1, Len(s)))

\* Serializer::collect_str for the Permissions field.  The writer is a
\* Vec<u8>, which records no io error, so a Display implementation
\* (to_writer) that reports fmt::Error makes collect_str panic on
\* expect("there should be an error").
collect_str(w) ==
    IF w.ok
    THEN Ok(<<"\"">> \o format_escaped_str_contents(w.text) \o <<"\"">>)
    ELSE Unwind("there should be an error")

serialize_permissions(flags) == collect_str(to_writer(flags))

\* serde_json::to_vec(&card): {"id":<id>,"permissions":"<flags>"}
serialize_struct(id, p) ==
    IF p.ok
    THEN Ok(<<"{", "\"", "i", "d", "\"", ":">> \o itoa(id)
            \o <<",", "\"", "p", "e", "r", "m", "i", "s", "s", "i", "o", "n", "s",
                 "\"", ":">>
            \o p.val \o <<"}">>)
    ELSE IF Unwinds(p) THEN p
    ELSE Err("serialize")

\* A faulty encoder: it writes the permissions as the number of their bits.
to_vec_bits(card) == serialize_struct(card.id, Ok(itoa(card.permissions)))

to_vec(card) == serialize_struct(card.id, serialize_permissions(card.permissions))

\* TryInto<Vec<u8>> for Card (main.rs 118-133).
match_to_vec(r) ==
    IF r.ok THEN Ok(r.val)
    ELSE IF Unwinds(r) THEN r
    ELSE Err(ConversionError("Invalid bytes to convert.", <<>>))

try_into(card) == match_to_vec(to_vec(card))

(***************************************************************************)
(* Decoding: serde_json::from_slice::<Card> (main.rs 104), with the derived*)
(* Deserialize of Card (main.rs 47-51) and of Permissions (main.rs 14-15:  *)
(* bitflags' serde support reads the flags from a string).                 *)
(*                                                                         *)
(* A parser step at position i of buffer b answers [ok, pos, val]: whether *)
(* it succeeded, the position after what it read, and what it read.        *)
(***************************************************************************)
EOF == ""
\* The byte 0x7F, which is no control character to serde_json.
Del == "<7f>"
\* Opaque characters: a non-ASCII White_Space character, any other
\* non-ASCII character.
UWs == "<ws>"
UOther == "<u>"

Peek(b, i) == IF i >= 1 /\ i <= Len(b) THEN b[i] ELSE EOF

PErr == [ok |-> FALSE, pos |-> 0, val |-> 0]
POk(pos, val) == [ok |-> TRUE, pos |-> pos, val |-> val]

\* The whitespace JSON allows between tokens.
JsonWs == {" ", "\n", "\t", "\r"}
\* char::is_whitespace, used by str::trim: 0x09 to 0x0D, the space and the
\* non-ASCII White_Space characters.
RustWs == {" ", "\t", "\n", ControlChar[12], "\f", "\r", UWs}

Digits == {"0", "1", "2", "3", "4", "5", "6", "7", "8", "9"}
DigitVal(c) ==
    CASE c = "0" -> 0 [] c = "1" -> 1 [] c = "2" -> 2 [] c = "3" -> 3
      [] c = "4" -> 4 [] c = "5" -> 5 [] c = "6" -> 6 [] c = "7" -> 7
      [] c = "8" -> 8 [] c = "9" -> 9 [] OTHER -> -1
\* char::to_digit(16); -1 when the character is no hex digit.
HexVal(c) ==
    CASE c \in Digits -> DigitVal(c)
      [] c \in {"a", "A"} -> 10 [] c \in {"b", "B"} -> 11
      [] c \in {"c", "C"} -> 12 [] c \in {"d", "D"} -> 13
      [] c \in {"e", "E"} -> 14 [] c \in {"f", "F"} -> 15
      [] OTHER -> -1

\* The grave accent (0x60), which has no string literal of its own.
Grave == "<grave>"

\* The printable ASCII characters, 0x20 to 0x7E.
Printable ==
    <<" ", "!", "\"", "#", "$", "%", "&", "'", "(", ")", "*", "+", ",",
      "-", ".", "/", "0", "1", "2", "3", "4", "5", "6", "7", "8", "9", ":",
      ";", "<", "=", ">", "?", "@", "A", "B", "C", "D", "E", "F", "G", "H",
      "I", "J", "K", "L", "M", "N", "O", "P", "Q", "R", "S", "T", "U", "V",
      "W", "X", "Y", "Z", "[", "\\", "]", "^", "_", Grave, "a", "b", "c",
      "d", "e", "f", "g", "h", "i", "j", "k", "l", "m", "n", "o", "p", "q",
      "r", "s", "t", "u", "v", "w", "x", "y", "z", "{", "|", "}", "~">>

\* The non-ASCII code points of the Basic Multilingual Plane with the
\* White_Space property.
UnicodeWsCodes ==
    {133, 160, 5760, 8232, 8233, 8239, 8287, 12288} \cup (8192..8202)

\* The character of a code point below the surrogates or above them.
CharOfCode(n) ==
    CASE n < 32 -> ControlChar[n + 1]
      [] n >= 32 /\ n <= 126 -> Printable[n - 31]
      [] n = 127 -> Del
      [] n \in UnicodeWsCodes -> UWs
      [] OTHER -> UOther

\* Deserializer::parse_whitespace: the first position from i on that holds
\* no JSON whitespace.
parse_whitespace(b, i) == FirstNotIn(b, i, JsonWs)

\* decode_hex_escape: four hex digits at i.
hex4(h1, h2, h3, h4, pos) ==
    IF h1 < 0 \/ h2 < 0 \/ h3 < 0 \/ h4 < 0 THEN PErr
    ELSE POk(pos, ((h1 * 16 + h2) * 16 + h3) * 16 + h4)

decode_hex_escape(b, i) ==
    hex4(HexVal(Peek(b, i)), HexVal(Peek(b, i + 1)), HexVal(Peek(b, i + 2)),
         HexVal(Peek(b, i + 3)), i + 4)

\* The second half of a surrogate pair: it must be a trailing surrogate.
trailing_surrogate(n2) ==
    IF n2.ok /\ n2.val >= 56320 /\ n2.val <= 57343 THEN POk(n2.pos, UOther)
    ELSE PErr

\* The character of \u<n1>: a trailing surrogate alone is refused, and a
\* leading surrogate needs \u and a trailing surrogate after it.
unicode_escape(b, n1) ==
    IF ~n1.ok THEN PErr
    ELSE IF n1.val >= 56320 /\ n1.val <= 57343 THEN PErr
    ELSE IF n1.val >= 55296 /\ n1.val <= 56319
    THEN IF Peek(b, n1.pos) # "\\" \/ Peek(b, n1.pos + 1) # "u" THEN PErr
         ELSE trailing_surrogate(decode_hex_escape(b, n1.pos + 2))
    ELSE POk(n1.pos, CharOfCode(n1.val))

\* parse_escape with validation, i the position after the backslash; val is
\* the character the escape stands for.
parse_escape(b, i) ==
    CASE Peek(b, i) = "\"" -> POk(i + 1, "\"")
      [] Peek(b, i) = "\\" -> POk(i + 1, "\\")
      [] Peek(b, i) = "/" -> POk(i + 1, "/")
      [] Peek(b, i) = "b" -> POk(i + 1, ControlChar[9])
      [] Peek(b, i) = "f" -> POk(i + 1, "\f")
      [] Peek(b, i) = "n" -> POk(i + 1, "\n")
      [] Peek(b, i) = "r" -> POk(i + 1, "\r")
      [] Peek(b, i) = "t" -> POk(i + 1, "\t")
      [] Peek(b, i) = "u" -> unicode_escape(b, decode_hex_escape(b, i + 1))
      [] OTHER -> PErr

\* The value of the byte at i when it is 0x80 or more, 0 otherwise (an
\* ASCII byte, a character an escape gave, or the end).
HighByteValue(s, i) ==
    IF i >= 1 /\ i <= Len(s) /\ s[i] \in {HighByte[n] : n \in 1..Len(HighByte)}
    THEN (CHOOSE n \in 1..Len(HighByte) : HighByte[n] = s[i]) + 127
    ELSE 0

\* One character of UTF-8 at i, where a byte from 0x80 on stands, as
\* core::str::from_utf8 accepts it: two bytes from C2..DF, three from
\* E0..EF (no overlong form, no surrogate), four from F0..F4 (no overlong
\* form, nothing above U+10FFFF), each followed by continuation bytes
\* 80..BF.  A character above the Basic Multilingual Plane has no
\* White_Space property.
next_code_point(w, x, y, z, i) ==
    CASE w \in 194..223 /\ x \in 128..191 ->
             POk(i + 2, CharOfCode((w - 192) * 64 + (x - 128)))
      [] /\ w \in 224..239 /\ y \in 128..191
         /\ x \in (IF w = 224 THEN 160..191 ELSE IF w = 237 THEN 128..159
                    ELSE 128..191) ->
             POk(i + 3, CharOfCode((w - 224) * 4096 + (x - 128) * 64 + (y - 128)))
      [] /\ w \in 240..244 /\ y \in 128..191 /\ z \in 128..191
         /\ x \in (IF w = 240 THEN 144..191 ELSE IF w = 244 THEN 128..143
                    ELSE 128..191) ->
             POk(i + 4, UOther)
      [] OTHER -> PErr

\* core::str::from_utf8 on the bytes of a string from i on, out the
\* characters so far: the ASCII bytes and the characters the escapes gave
\* up to the next byte from 0x80 on (position j) are kept, the bytes from
\* there are decoded to one character c, and so on.
RECURSIVE from_utf8_from(_, _, _)
RECURSIVE from_utf8_at(_, _, _)
RECURSIVE from_utf8_next(_, _, _)
from_utf8_from(s, i, out) ==
    from_utf8_at(s, FirstIn(s, i, {HighByte[n] : n \in 1..Len(HighByte)}),
                 out \o SubSeq(s, i, FirstIn(s, i, {HighByte[n] : n \in 1..Len(HighByte)}) - 1))

from_utf8_at(s, j, out) ==
    IF j > Len(s) THEN POk(j, out)
    ELSE from_utf8_next(s, out,
             next_code_point(HighByteValue(s, j), HighByteValue(s, j + 1),
                             HighByteValue(s, j + 2), HighByteValue(s, j + 3), j))

from_utf8_next(s, out, c) ==
    IF c.ok THEN from_utf8_from(s, c.pos, Append(out, c.val)) ELSE PErr

\* SliceRead's as_str at the closing quote: the bytes of the string must be
\* UTF-8, and the string is their characters; pos is the position after
\* the quote.
as_str(pos, decoded) == IF decoded.ok THEN POk(pos, decoded.val) ELSE PErr

\* SliceRead::parse_str, i the position after the opening quote: the
\* characters of the string with the escapes resolved.  The text up to the
\* next quote, backslash or byte below 0x20 (position j) is copied to the
\* scratch; a quote ends the string, whose bytes are then validated as
\* UTF-8; an escape e adds its character, a raw byte below 0x20 is an error
\* (0x7F is copied like any other character).
RECURSIVE parse_str_from(_, _, _)
RECURSIVE parse_str_at(_, _, _)
RECURSIVE parse_str_escape(_, _, _)
parse_str_from(b, i, scratch) ==
    parse_str_at(b, FirstIn(b, i, {"\"", "\\"} \cup ControlChars),
                 scratch \o SubSeq(b, i, FirstIn(b, i, {"\"", "\\"} \cup ControlChars) - 1))

parse_str_at(b, j, scratch) ==
    IF Peek(b, j) = "\"" THEN as_str(j + 1, from_utf8_from(scratch, 1, <<>>))
    ELSE IF Peek(b, j) = "\\"
    THEN parse_str_escape(b, scratch, parse_escape(b, j + 1))
    ELSE PErr

parse_str_escape(b, scratch, e) ==
    IF e.ok THEN parse_str_from(b, e.pos, Append(scratch, e.val)) ELSE PErr

parse_str(b, i) == parse_str_from(b, i, <<>>)

\* The position after the digits that start at i.
skip_digits(b, i) == FirstNotIn(b, i, Digits)

\* The value of the digits i..j-1 continuing acc.  A value past u16 is kept
\* as U16Max + 1: all a u16 visitor asks of it is that it is out of range.
RECURSIVE digits_value(_, _, _, _)
digits_value(b, i, j, acc) ==
    IF i >= j THEN acc
    ELSE digits_value(b, i + 1, j,
                      IF acc * 10 + DigitVal(b[i]) > U16Max THEN U16Max + 1
                      ELSE acc * 10 + DigitVal(b[i]))

\* The u16 visitor on the integer whose digits are j..k-1: a fraction or an
\* exponent after them makes it a float (visit_f64), which is refused, as is
\* a value above u16::MAX.
visit_u64(b, j, k) ==
    IF Peek(b, k) \in {".", "e", "E"} THEN PErr
    ELSE IF digits_value(b, j, k, 0) > U16Max THEN PErr
    ELSE POk(k, digits_value(b, j, k, 0))

\* parse_integer for a u16, j at the first character of the number.  A
\* negative integer is refused (visit_i64 of a negative value; "-0" is a
\* float to serde_json), as is a digit after a leading 0.
parse_integer(b, j) ==
    IF Peek(b, j) \notin Digits THEN PErr
    ELSE IF Peek(b, j) = "0" /\ Peek(b, j + 1) \in Digits THEN PErr
    ELSE visit_u64(b, j, skip_digits(b, j))

\* deserialize_u16: parse_whitespace, then the number.
deserialize_u16(b, i) == parse_integer(b, parse_whitespace(b, i))

\* ignore_exponent, i at the 'e': an optional sign at i + 1, then digits
\* from j on.
exponent_digits(b, j) ==
    IF Peek(b, j) \in Digits THEN POk(skip_digits(b, j), 0) ELSE PErr

ignore_exponent(b, i) ==
    exponent_digits(b, IF Peek(b, i + 1) \in {"+", "-"} THEN i + 2 ELSE i + 1)

\* ignore_decimal, i at the '.': digits, then an optional exponent at j.
after_decimal(b, j) ==
    IF Peek(b, j) \in {"e", "E"} THEN ignore_exponent(b, j) ELSE POk(j, 0)

ignore_decimal(b, i) ==
    IF Peek(b, i + 1) \notin Digits THEN PErr
    ELSE after_decimal(b, skip_digits(b, i + 1))

\* ignore_integer, i at the first digit: digits, then an optional fraction
\* or exponent at j.
after_integer(b, j) ==
    CASE Peek(b, j) = "." -> ignore_decimal(b, j)
      [] Peek(b, j) \in {"e", "E"} -> ignore_exponent(b, j)
      [] OTHER -> POk(j, 0)

ignore_integer(b, i) ==
    IF Peek(b, i) \notin Digits THEN PErr
    ELSE IF Peek(b, i) = "0" /\ Peek(b, i + 1) \in Digits THEN PErr
    ELSE after_integer(b, skip_digits(b, i))

\* ignore_str, i the position after the opening quote: as parse_str, but an
\* escape is only checked for its form and the bytes are not validated as
\* UTF-8.
RECURSIVE ignore_str(_, _)
RECURSIVE ignore_str_at(_, _)
RECURSIVE ignore_str_hex(_, _)
ignore_str(b, i) == ignore_str_at(b, FirstIn(b, i, {"\"", "\\"} \cup ControlChars))

ignore_str_at(b, j) ==
    IF Peek(b, j) = "\"" THEN POk(j + 1, 0)
    ELSE IF Peek(b, j) = "\\"
    THEN IF Peek(b, j + 1) \in {"\"", "\\", "/", "b", "f", "n", "r", "t"}
         THEN ignore_str(b, j + 2)
         ELSE IF Peek(b, j + 1) = "u"
         THEN ignore_str_hex(b, decode_hex_escape(b, j + 2))
         ELSE PErr
    ELSE PErr

ignore_str_hex(b, h) == IF h.ok THEN ignore_str(b, h.pos) ELSE PErr

\* parse_ident: the characters of word at i.
RECURSIVE parse_ident(_, _, _)
parse_ident(b, i, word) ==
    IF word = <<>> THEN POk(i, 0)
    ELSE IF Peek(b, i) = Head(word) THEN parse_ident(b, i + 1, Tail(word))
    ELSE PErr

\* Deserializer::ignore_value: any one JSON value is read and dropped (the
\* value of a field Card does not have).
RECURSIVE ignore_value(_, _)
RECURSIVE ignore_value_at(_, _)
RECURSIVE ignore_elements(_, _, _)
RECURSIVE ignore_elements_at(_, _, _)
RECURSIVE ignore_next_element(_, _)
RECURSIVE ignore_members(_, _, _)
RECURSIVE ignore_members_at(_, _, _)
RECURSIVE ignore_member(_, _)
RECURSIVE ignore_member_key(_, _)
RECURSIVE ignore_member_colon(_, _)
RECURSIVE ignore_next_member(_, _)
ignore_value(b, i) == ignore_value_at(b, parse_whitespace(b, i))

ignore_value_at(b, j) ==
    CASE Peek(b, j) = "n" -> parse_ident(b, j + 1, <<"u", "l", "l">>)
      [] Peek(b, j) = "t" -> parse_ident(b, j + 1, <<"r", "u", "e">>)
      [] Peek(b, j) = "f" -> parse_ident(b, j + 1, <<"a", "l", "s", "e">>)
      [] Peek(b, j) = "-" -> ignore_integer(b, j + 1)
      [] Peek(b, j) \in Digits -> ignore_integer(b, j)
      [] Peek(b, j) = "\"" -> ignore_str(b, j + 1)
      [] Peek(b, j) = "[" -> ignore_elements(b, j + 1, TRUE)
      [] Peek(b, j) = "{" -> ignore_members(b, j + 1, TRUE)
      [] OTHER -> PErr

\* The elements of an array after its '[': first says none was read yet.
ignore_elements(b, i, first) == ignore_elements_at(b, parse_whitespace(b, i), first)

ignore_elements_at(b, j, first) ==
    IF Peek(b, j) = EOF THEN PErr
    ELSE IF Peek(b, j) = "]" THEN POk(j + 1, 0)
    ELSE IF first THEN ignore_next_element(b, ignore_value(b, j))
    ELSE IF Peek(b, j) = "," THEN ignore_next_element(b, ignore_value(b, j + 1))
    ELSE PErr

ignore_next_element(b, v) == IF v.ok THEN ignore_elements(b, v.pos, FALSE) ELSE PErr

\* The members of an object after its '{'.
ignore_members(b, i, first) == ignore_members_at(b, parse_whitespace(b, i), first)

ignore_members_at(b, j, first) ==
    IF Peek(b, j) = EOF THEN PErr
    ELSE IF Peek(b, j) = "}" THEN POk(j + 1, 0)
    ELSE IF first THEN ignore_member(b, j)
    ELSE IF Peek(b, j) = "," THEN ignore_member(b, parse_whitespace(b, j + 1))
    ELSE PErr

\* One member, k at its key: a string, a colon, a value.
ignore_member(b, k) ==
    IF Peek(b, k) # "\"" THEN PErr ELSE ignore_member_key(b, ignore_str(b, k + 1))

ignore_member_key(b, key) ==
    IF ~key.ok THEN PErr ELSE ignore_member_colon(b, parse_whitespace(b, key.pos))

ignore_member_colon(b, colon) ==
    IF Peek(b, colon) # ":" THEN PErr
    ELSE ignore_next_member(b, ignore_value(b, colon + 1))

ignore_next_member(b, v) == IF v.ok THEN ignore_members(b, v.pos, FALSE) ELSE PErr

\* str::trim_start and str::trim.
trim_start(s) == SubSeq(s, FirstNotIn(s, 1, RustWs), Len(s))

trim_end(s) == SubSeq(s, 1, LastNotIn(s, Len(s), RustWs))

trim(s) == trim_end(trim_start(s))

\* str::split('|'): the pieces between the bars, empty pieces included.
RECURSIVE split_from(_, _)
RECURSIVE split_at(_, _, _)
split_from(s, i) == split_at(s, i, FirstIn(s, i, {"|"}))

split_at(s, i, j) ==
    IF j > Len(s) THEN <<SubSeq(s, i, Len(s))>>
    ELSE <<SubSeq(s, i, j - 1)>> \o split_from(s, j + 1)

split(s) == split_from(s, 1)

\* The value of the hex digits of s continuing acc, -1 when one of them is
\* no hex digit; a value past u8 is kept as U8Max + 1.
RECURSIVE hex_value(_, _)
hex_value(s, acc) ==
    IF s = <<>> THEN acc
    ELSE IF HexVal(Head(s)) < 0 THEN -1
    ELSE hex_value(Tail(s),
                   IF acc * 16 + HexVal(Head(s)) > U8Max THEN U8Max + 1
                   ELSE acc * 16 + HexVal(Head(s)))

\* ParseHex for u8: u8::from_str_radix(s, 16).  A leading '+' is allowed, a
\* '-' is not; no digit at all and a value above u8::MAX are errors.
hex_digits_value(digits, v) ==
    IF digits = <<>> \/ v < 0 \/ v > U8Max THEN Err("hex") ELSE Ok(v)

from_str_radix_16(digits) == hex_digits_value(digits, hex_value(digits, 0))

parse_hex(s) ==
    from_str_radix_16(IF s # <<>> /\ Head(s) = "+" THEN Tail(s) ELSE s)

\* Flags::from_name: the flag of that exact name.
from_name(name) ==
    IF \E n \in 1..Len(FLAGS) : FLAGS[n].name = name
    THEN Ok(FLAGS[CHOOSE n \in 1..Len(FLAGS) : FLAGS[n].name = name].bits)
    ELSE Err("name")

\* Flags::from_bits_retain: any bits are kept, recognized or not.
from_bits_retain(bits) == bits

retain_bits(bits) == IF bits.ok THEN Ok(from_bits_retain(bits.val)) ELSE bits

\* One flag of the text, trimmed: 0x<hex> or a name.
parse_flag(flag) ==
    IF flag = <<>> THEN Err("empty")
    ELSE IF Len(flag) >= 2 /\ flag[1] = "0" /\ flag[2] = "x"
    THEN retain_bits(parse_hex(SubSeq(flag, 3, Len(flag))))
    ELSE from_name(flag)

RECURSIVE insert_flags(_, _)
RECURSIVE insert_flag(_, _, _)
insert_flags(pieces, parsed_flags) ==
    IF pieces = <<>> THEN Ok(parsed_flags)
    ELSE insert_flag(pieces, parsed_flags, parse_flag(trim(Head(pieces))))

insert_flag(pieces, parsed_flags, f) ==
    IF f.ok THEN insert_flags(Tail(pieces), union(parsed_flags, f.val)) ELSE f

\* bitflags::parser::from_str: blank text is the empty set; otherwise every
\* piece between bars is a flag, and the result is their union.
from_str(input) ==
    IF trim(input) = <<>> THEN Ok(empty)
    ELSE insert_flags(split(input), empty)

\* The flags visitor on the string str read from the buffer.
visit_flags_str(str, f) == IF f.ok THEN POk(str.pos, f.val) ELSE PErr

deserialize_flags_str(str) ==
    IF ~str.ok THEN PErr ELSE visit_flags_str(str, from_str(str.val))

\* Permissions as the value of a field, j at its first character: a JSON
\* string, read by from_str.
deserialize_str(b, j) ==
    IF Peek(b, j) # "\"" THEN PErr
    ELSE deserialize_flags_str(parse_str(b, j + 1))

deserialize_permissions(b, i) == deserialize_str(b, parse_whitespace(b, i))

\* A field that was not read yet.
Missing == -1

\* Card's derived visit_map over serde_json's MapAccess, i after the '{' or
\* after the last value read: keys "id" and "permissions" are read once
\* each, any other key's value is ignored, and both fields must have been
\* read when the '}' comes.
RECURSIVE visit_map(_, _, _, _, _)
RECURSIVE next_key(_, _, _, _, _)
RECURSIVE map_key(_, _, _, _)
RECURSIVE map_key_str(_, _, _, _)
RECURSIVE next_value(_, _, _, _, _)
RECURSIVE field_id(_, _, _)
RECURSIVE field_permissions(_, _, _)
RECURSIVE field_ignored(_, _, _, _)
visit_map(b, i, first, id, permissions) ==
    next_key(b, parse_whitespace(b, i), first, id, permissions)

\* j is at the first character after the whitespace: the '}', or a key
\* (after a comma, unless it is the first key).
next_key(b, j, first, id, permissions) ==
    IF Peek(b, j) = EOF THEN PErr
    ELSE IF Peek(b, j) = "}"
    THEN IF id = Missing \/ permissions = Missing THEN PErr
         ELSE POk(j + 1, Card(id, permissions))
    ELSE IF first THEN map_key(b, j, id, permissions)
    ELSE IF Peek(b, j) = ","
    THEN map_key(b, parse_whitespace(b, j + 1), id, permissions)
    ELSE PErr

\* k is at the key: it must be a string.
map_key(b, k, id, permissions) ==
    IF Peek(b, k) # "\"" THEN PErr
    ELSE map_key_str(b, parse_str(b, k + 1), id, permissions)

map_key_str(b, key, id, permissions) ==
    IF ~key.ok THEN PErr
    ELSE next_value(b, key.val, parse_whitespace(b, key.pos), id, permissions)

\* parse_object_colon, then the field's value: a field read twice is an
\* error.
next_value(b, key, colon, id, permissions) ==
    IF Peek(b, colon) # ":" THEN PErr
    ELSE IF key = <<"i", "d">>
    THEN IF id # Missing THEN PErr
         ELSE field_id(b, deserialize_u16(b, colon + 1), permissions)
    ELSE IF key = <<"p", "e", "r", "m", "i", "s", "s", "i", "o", "n", "s">>
    THEN IF permissions # Missing THEN PErr
         ELSE field_permissions(b, id, deserialize_permissions(b, colon + 1))
    ELSE field_ignored(b, ignore_value(b, colon + 1), id, permissions)

field_id(b, v, permissions) ==
    IF v.ok THEN visit_map(b, v.pos, FALSE, v.val, permissions) ELSE PErr

field_permissions(b, id, v) ==
    IF v.ok THEN visit_map(b, v.pos, FALSE, id, v.val) ELSE PErr

field_ignored(b, v, id, permissions) ==
    IF v.ok THEN visit_map(b, v.pos, FALSE, id, permissions) ELSE PErr

\* Card's derived visit_seq over serde_json's SeqAccess, i after the '[',
\* followed by end_seq: exactly [id, permissions].
end_seq(b, end, id, p) ==
    IF Peek(b, end) = "]" THEN POk(end + 1, Card(id.val, p.val)) ELSE PErr

seq_permissions(b, id, p) ==
    IF ~p.ok THEN PErr ELSE end_seq(b, parse_whitespace(b, p.pos), id, p)

seq_second(b, k, id) ==
    IF Peek(b, k) \in {EOF, "]"} THEN PErr
    ELSE seq_permissions(b, id, deserialize_permissions(b, k))

seq_comma(b, comma, id) ==
    IF Peek(b, comma) # "," THEN PErr
    ELSE seq_second(b, parse_whitespace(b, comma + 1), id)

seq_id(b, id) ==
    IF ~id.ok THEN PErr ELSE seq_comma(b, parse_whitespace(b, id.pos), id)

seq_first(b, j) ==
    IF Peek(b, j) \in {EOF, "]"} THEN PErr ELSE seq_id(b, deserialize_u16(b, j))

visit_seq(b, i) == seq_first(b, parse_whitespace(b, i))

\* Deserializer::deserialize_struct: a struct is read from an object or from
\* an array of its fields in order.
deserialize_struct_at(b, j) ==
    CASE Peek(b, j) = "[" -> visit_seq(b, j + 1)
      [] Peek(b, j) = "{" -> visit_map(b, j + 1, TRUE, Missing, Missing)
      [] OTHER -> PErr

deserialize_struct(b, i) == deserialize_struct_at(b, parse_whitespace(b, i))

\* Deserializer::end: only whitespace may follow the value r.
end(b, r) ==
    IF r.ok /\ parse_whitespace(b, r.pos) > Len(b) THEN Ok(r.val)
    ELSE Err("json")

\* serde_json::from_slice: the value, then Deserializer::end.
from_slice(b) == end(b, deserialize_struct(b, 1))

\* The match of try_from on from_slice's result r.
match_from_slice(value, r) ==
    IF r.ok THEN Ok(r.val)
    ELSE Err(ConversionError("Cant convert to Card", value))

\* TryFrom<&[u8]> for Card (main.rs 99-109).
try_from(value) == match_from_slice(value, from_slice(value))

\* Card::from_bytes (main.rs 86-89).
from_bytes(bytes) == try_from(bytes)

(***************************************************************************)
(* Kernel and its base implementation SystemBase (main.rs 135-175).        *)
(***************************************************************************)
\* SystemBase::Global
SystemBase == "SystemBase"

\* How a call ends: it returns a value, or it panics with a message.
Returned(v) == [how |-> "returned", val |-> v]
Panicked(message) == [how |-> "panicked", val |-> message]

\* unimplemented!(message)
unimplemented(message) == Panicked(<<"not implemented", message>>)

\* impl Kernel for SystemBase: read, read_mut and write.
SystemBase_read(card_id) == unimplemented("Read a card from the database")
SystemBase_read_mut(card_id) == unimplemented("Read a card from the database?")
SystemBase_write(c, data) == unimplemented("Read a card from the database")

(***************************************************************************)
(* NfcService (main.rs 177-258): cards is a BTreeMap<u16, Card>, modelled  *)
(* as a function from the keys present to their Cards.                     *)
(***************************************************************************)
NoCard == [id |-> -1, permissions |-> -1]
NoBytes == <<"<no bytes>">>

Some(v) == [some |-> TRUE, val |-> v]
None == [some |-> FALSE, val |-> NoCard]
Unit == "()"

\* BTreeMap::new
BTreeMap_new == [k \in {} |-> NoCard]

\* A faulty insert: an entry that is present keeps its value.
BTreeMap_insert_vacant(map, key, value) ==
    [map |-> [k \in (DOMAIN map) \cup {key} |->
                 IF k \in DOMAIN map THEN map[k] ELSE value],
     old |-> IF key \in DOMAIN map THEN Some(map[key]) ELSE None]

\* BTreeMap::insert: the entry of key becomes value; the value it replaces,
\* if any, is returned.
BTreeMap_insert(map, key, value) ==
    [map |-> [k \in (DOMAIN map) \cup {key} |-> IF k = key THEN value ELSE map[k]],
     old |-> IF key \in DOMAIN map THEN Some(map[key]) ELSE None]

\* A faulty remove: the entry of key is returned and stays in the map.
BTreeMap_remove_keep(map, key) ==
    [map |-> map,
     old |-> IF key \in DOMAIN map THEN Some(map[key]) ELSE None]

\* BTreeMap::remove: the entry of key is removed and returned.
BTreeMap_remove(map, key) ==
    [map |-> [k \in (DOMAIN map) \ {key} |-> map[k]],
     old |-> IF key \in DOMAIN map THEN Some(map[key]) ELSE None]

\* BTreeMap::get and BTreeMap::contains_key
BTreeMap_get(map, key) == IF key \in DOMAIN map THEN Some(map[key]) ELSE None
BTreeMap_contains_key(map, key) == key \in DOMAIN map

\* BTreeMap::values: the values in ascending order of their keys.
RECURSIVE BTreeMap_values_of(_, _)
BTreeMap_values_of(map, keys) ==
    IF keys = {} THEN <<>>
    ELSE LET least == CHOOSE k \in keys : \A m \in keys : k <= m IN
         <<map[least]>> \o BTreeMap_values_of(map, keys \ {least})

BTreeMap_values(map) == BTreeMap_values_of(map, DOMAIN map)

\* A faulty put: the Card is stored under the number of entries.
put_at_len(map, c) == BTreeMap_insert(map, Cardinality(DOMAIN map), c).map

\* NfcService::new (main.rs 211-216) and new_in (main.rs 221-226).
new == [system |-> SystemBase, cards |-> BTreeMap_new]
new_in(k) == [system |-> k, cards |-> BTreeMap_new]

\* NfcService::kernel (main.rs 230-232).
kernel(k) == k

\* NfcService::put (main.rs 247-249): the new map.
put(map, c) == BTreeMap_insert(map, c.id, c).map

\* A faulty unbind: the entries from card_id on are split off the map.
unbind_split(map, card_id) ==
    [map |-> [k \in {j \in DOMAIN map : j < card_id} |-> map[k]],
     old |-> BTreeMap_remove(map, card_id).old]

\* A faulty unbind: the entry is removed and the Card is not handed back.
unbind_discard(map, card_id) ==
    [map |-> BTreeMap_remove(map, card_id).map, old |-> None]

\* NfcService::unbind (main.rs 243-245): the new map and the Card removed.
unbind(map, card_id) == BTreeMap_remove(map, card_id)

\* NfcService::get (main.rs 251-253) and contains (main.rs 255-257).
get(map, card_id) == BTreeMap_get(map, card_id)
contains_id(map, card_id) == BTreeMap_contains_key(map, card_id)

\* A faulty export: the Cards in descending order of their ids.
cards_rev(map) ==
    [i \in 1..Len(BTreeMap_values(map)) |->
        BTreeMap_values(map)[Len(BTreeMap_values(map)) + 1 - i]]

\* A faulty len: the id that follows the largest id present.
len_next(map) ==
    IF DOMAIN map = {} THEN 0
    ELSE 1 + (CHOOSE k \in DOMAIN map : \A j \in DOMAIN map : j <= k)

\* NfcService::cards (main.rs 239-241) and len (main.rs 235-237).
cards_of(map) == BTreeMap_values(map)
len(map) == Cardinality(DOMAIN map)

(***************************************************************************)
(* The inputs of the model.                                                *)
(***************************************************************************)
\* The ids and the Cards the registry is driven with.
RegIds == (0..(NumIds - 2)) \cup {U16Max}
RegPermissions == {REGULAR, union(REGULAR, ADMIN)}
RegCards == {CardNew(id, p) : id \in RegIds, p \in RegPermissions}

\* The Cards the codec is driven with: ids of one to five digits, every
\* set of recognized flags, and some values from_bits_retain can build
\* that hold unrecognized bits.
CodecIds == (0..MaxCodecId) \cup {255, 4096, U16Max}
CodecPermissions == RecognizedPermissions \cup {64, 128, U8Max}

\* Buffers sent by the hardware layer: a shape, filled with a text for the
\* id and a text for the permissions.  denotes is the number the sender
\* means by the text, -1 when the text is no number (for an id) or no set
\* of flags (for permissions); string says whether the permissions are
\* written as a JSON string.
IdTexts ==
    {  [form |-> "zero", text |-> <<"0">>, denotes |-> 0],
       [form |-> "one", text |-> <<"1">>, denotes |-> 1],
       [form |-> "max", text |-> <<"6", "5", "5", "3", "5">>, denotes |-> 65535],
       [form |-> "over", text |-> <<"6", "5", "5", "3", "6">>, denotes |-> 65536],
       [form |-> "negative", text |-> <<"-", "1">>, denotes |-> -1],
       [form |-> "fraction", text |-> <<"1", ".", "0">>, denotes |-> -1],
       [form |-> "string", text |-> <<"\"", "1", "\"">>, denotes |-> -1],
       [form |-> "leading_zero", text |-> <<"0", "1">>, denotes |-> -1] }

PermissionsTexts ==
    {  [form |-> "regular", string |-> TRUE, denotes |-> 2,
        text |-> <<"\"", "R", "E", "G", "U", "L", "A", "R", "\"">>],
       [form |-> "none_set", string |-> TRUE, denotes |-> 0,
        text |-> <<"\"", "\"">>],
       [form |-> "full", string |-> TRUE, denotes |-> 63,
        text |-> <<"\"", "N", "O", "N", "E", " ", "|", " ",
                   "R", "E", "G", "U", "L", "A", "R", " ", "|", " ",
                   "I", "T", "_", "S", "U", "P", "P", "O", "R", "T", " ", "|", " ",
                   "O", "P", "E", "N", "_", "D", "O", "O", "R", "S", " ", "|", " ",
                   "A", "D", "M", "I", "N", " ", "|", " ",
                   "S", "U", "P", "E", "R", "_", "A", "D", "M", "I", "N", "\"">>],
       [form |-> "tight", string |-> TRUE, denotes |-> 18,
        text |-> <<"\"", "R", "E", "G", "U", "L", "A", "R", "|",
                   "A", "D", "M", "I", "N", "\"">>],
       [form |-> "escaped", string |-> TRUE, denotes |-> 16,
        text |-> <<"\"", "\\", "u", "0", "0", "4", "1", "D", "M", "I", "N",
                   "\\", "n", "\"">>],
       [form |-> "hex_known", string |-> TRUE, denotes |-> 63,
        text |-> <<"\"", "0", "x", "3", "f", "\"">>],
       [form |-> "hex_unknown", string |-> TRUE, denotes |-> 64,
        text |-> <<"\"", "0", "x", "4", "0", "\"">>],
       [form |-> "name_and_hex_unknown", string |-> TRUE, denotes |-> 130,
        text |-> <<"\"", "R", "E", "G", "U", "L", "A", "R", " ", "|", " ",
                   "0", "x", "8", "0", "\"">>],
       [form |-> "number_unknown", string |-> FALSE, denotes |-> 64,
        text |-> <<"6", "4">>],
       [form |-> "number_known", string |-> FALSE, denotes |-> 2,
        text |-> <<"2">>],
       [form |-> "lower_case", string |-> TRUE, denotes |-> -1,
        text |-> <<"\"", "r", "e", "g", "u", "l", "a", "r", "\"">>],
       [form |-> "dangling_bar", string |-> TRUE, denotes |-> -1,
        text |-> <<"\"", "R", "E", "G", "U", "L", "A", "R", " ", "|", " ", "\"">>],
       [form |-> "object_bits", string |-> FALSE, denotes |-> 2,
        text |-> <<"{", "\"", "b", "i", "t", "s", "\"", ":", "2", "}">>] }

Shapes ==
    {"object", "spaced", "swapped", "array", "extra_field", "duplicate_field",
     "no_id", "no_permissions", "truncated", "trailing", "trailing_comma",
     "empty"}

KeyId == <<"\"", "i", "d", "\"", ":">>
KeyPermissions ==
    <<"\"", "p", "e", "r", "m", "i", "s", "s", "i", "o", "n", "s", "\"", ":">>

\* The buffer of a shape around the two texts.
Buffer(shape, i, p) ==
    CASE shape = "object" ->
           <<"{">> \o KeyId \o i \o <<",">> \o KeyPermissions \o p \o <<"}">>
      [] shape = "spaced" ->
           <<" ", "\n", "{", " ", "\"", "i", "d", "\"", " ", ":", " ">> \o i
           \o <<" ", ",", "\r", "\n", "\t", "\"", "p", "e", "r", "m", "i", "s", "s",
                "i", "o", "n", "s", "\"", " ", ":", " ">> \o p
           \o <<" ", "}", " ", "\n">>
      [] shape = "swapped" ->
           <<"{">> \o KeyPermissions \o p \o <<",">> \o KeyId \o i \o <<"}">>
      [] shape = "array" -> <<"[">> \o i \o <<",">> \o p \o <<"]">>
      [] shape = "extra_field" ->
           <<"{">> \o KeyId \o i \o <<",">> \o KeyPermissions \o p
           \o <<",", "\"", "x", "\"", ":", "[", "1", ",", "{", "\"", "a", "\"", ":",
                "n", "u", "l", "l", "}", ",", "-", "2", ".", "5", "e", "+", "3",
                ",", "\"", "s", "\\", "n", "\"", "]", "}">>
      [] shape = "duplicate_field" ->
           <<"{">> \o KeyId \o i \o <<",">> \o KeyId \o i \o <<",">>
           \o KeyPermissions \o p \o <<"}">>
      [] shape = "no_id" -> <<"{">> \o KeyPermissions \o p \o <<"}">>
      [] shape = "no_permissions" -> <<"{">> \o KeyId \o i \o <<"}">>
      [] shape = "truncated" ->
           <<"{">> \o KeyId \o i \o <<",">> \o KeyPermissions \o p
      [] shape = "trailing" ->
           <<"{">> \o KeyId \o i \o <<",">> \o KeyPermissions \o p \o <<"}", "x">>
      [] shape = "trailing_comma" ->
           <<"{">> \o KeyId \o i \o <<",">> \o KeyPermissions \o p \o <<",", "}">>
      [] OTHER -> <<>>

\* What the sender of a buffer meant by it.
Sent(shape, i, p) ==
    [shape |-> shape, id |-> i.denotes, id_form |-> i.form,
     permissions |-> p.denotes, permissions_form |-> p.form,
     permissions_string |-> p.string]
NotSent ==
    [shape |-> "", id |-> -1, id_form |-> "", permissions |-> -1,
     permissions_form |-> "", permissions_string |-> FALSE]

(***************************************************************************)
(* Party (src/main.rs 30-164): players is a Vec<Class>, modelled as a      *)
(* sequence; leader is the Class given to Party::new.  name and min_lvl    *)
(* are set by Party::new and no operation modelled here reads or writes    *)
(* them.                                                                   *)
(***************************************************************************)
\* enum Class (main.rs 14-21).
Class == {"Bard", "Artist", "Paladin", "Wardancer", "Scrapper", "None"}

\* No Party has been constructed.
NoParty == [players |-> <<>>, leader |-> "<no party>"]

\* Party::new (main.rs 59-68): the leader is the first player.
Party_new(leader) == [players |-> <<leader>>, leader |-> leader]

\* Vec::first
first(vec) == IF vec = <<>> THEN [some |-> FALSE] ELSE Some(vec[1])

\* Party::leader (main.rs 103-106).
Party_leader(self) == first(self.players)

\* Party::join (main.rs 142-145): self after the call.
join(self, class) == [self EXCEPT !.players = Append(self.players, class)]

\* Vec::retain with the closure |cls| &class == cls: the elements that
\* are equal to class are kept.
retain_equal(vec, class) == SelectSeq(vec, LAMBDA cls : class = cls)

\* Party::leave (main.rs 148-151): self after the call.
leave(self, class) == [self EXCEPT !.players = retain_equal(self.players, class)]

\* Vec::swap
swap(vec, a, b) == [vec EXCEPT ![a] = vec[b], ![b] = vec[a]]

\* Party::promote_next_player (main.rs 154-163): self after the call and
\* the Result; players.get(1) is the second player.
promote_next_player(self) ==
    IF Len(self.players) >= 2
    THEN [self |-> [self EXCEPT !.players = swap(self.players, 1, 2)],
          result |-> Ok(Unit)]
    ELSE [self |-> self, result |-> Err("No other players to promote.")]

(***************************************************************************)
(* State.                                                                  *)
(***************************************************************************)
VARIABLES
    cards,     \* NfcService.cards
    system,    \* NfcService.system
    panicked,  \* the process was aborted by a panic
    held,      \* the Card the caller holds, or NoCard
    buffer,    \* the byte buffer the caller holds, or NoBytes
    ub,        \* unwrap_unchecked was reached on an Err
    last,      \* the last call: its name, argument, result, the map before it
    written,   \* history: per id, the last put or unbind that named it
    sent,      \* history: where buffer came from
    pc,        \* where the call in progress stands, "idle" between calls
    driven,    \* history: the operations of the backend invoked so far
    party      \* the Party of src/main.rs, or NoParty

vars == <<cards, system, panicked, held, buffer, ub, last, written, sent,
          pc, driven, party>>

Call(op, arg, ret, before) == [op |-> op, arg |-> arg, ret |-> ret, before |-> before]
NoCall == Call("", Unit, Unit, BTreeMap_new)

\* The history of an id: the last put or unbind that named it (kind), the
\* Card of the last put, and whether that put replaced a different Card.
NotWritten == [kind |-> "none", card |-> NoCard, overwrote |-> FALSE]

\* NfcService::new or new_in with the one Kernel there is (main.rs
\* 208-226); nothing is held.
Init ==
    /\ \E service \in {new, new_in(SystemBase)} :
           /\ cards = service.cards
           /\ system = service.system
    /\ panicked = FALSE
    /\ held = NoCard
    /\ buffer = NoBytes
    /\ ub = FALSE
    /\ last = NoCall
    /\ written = [id \in RegIds |-> NotWritten]
    /\ sent = NotSent
    /\ pc = "idle"
    /\ driven = {}
    /\ party = NoParty

(***************************************************************************)
(* The registry's operations.                                              *)
(***************************************************************************)
Put(c) ==
    /\ ~panicked
    /\ pc = "idle"
    /\ cards' = put(cards, c)
    /\ last' = Call("put", c, Unit, cards)
    /\ written' = [written EXCEPT ![c.id] =
                       [kind |-> "put", card |-> c,
                        overwrote |-> written[c.id].kind = "put"
                                      /\ written[c.id].card # c]]
    /\ UNCHANGED <<system, panicked, held, buffer, ub, sent, pc, driven, party>>

Unbind(card_id) ==
    /\ ~panicked
    /\ pc = "idle"
    /\ cards' = unbind(cards, card_id).map
    /\ last' = Call("unbind", card_id, unbind(cards, card_id).old, cards)
    /\ written' = [written EXCEPT ![card_id] =
                       [kind |-> "unbind",
                        card |-> IF written[card_id].kind = "put"
                                 THEN written[card_id].card ELSE NoCard,
                        overwrote |-> FALSE]]
    /\ UNCHANGED <<system, panicked, held, buffer, ub, sent, pc, driven, party>>

\* A faulty get: it polls the backend before it looks the id up.
GetSensing(card_id) ==
    /\ ~panicked
    /\ pc = "idle"
    /\ last' = Call("get", card_id, get(cards, card_id), cards)
    /\ driven' = driven \cup {"sense"}
    /\ UNCHANGED <<cards, system, panicked, held, buffer, ub, written, sent, pc, party>>

Get(card_id) ==
    /\ ~panicked
    /\ pc = "idle"
    /\ last' = Call("get", card_id, get(cards, card_id), cards)
    /\ UNCHANGED <<cards, system, panicked, held, buffer, ub, written, sent, pc, driven, party>>

Contains(card_id) ==
    /\ ~panicked
    /\ pc = "idle"
    /\ last' = Call("contains", card_id, contains_id(cards, card_id), cards)
    /\ UNCHANGED <<cards, system, panicked, held, buffer, ub, written, sent, pc, driven, party>>

\* A faulty cards(): the Cards are moved out of the map.
CardsDraining ==
    /\ ~panicked
    /\ pc = "idle"
    /\ last' = Call("cards", Unit, cards_of(cards), cards)
    /\ cards' = BTreeMap_new
    /\ UNCHANGED <<system, panicked, held, buffer, ub, written, sent, pc, driven, party>>

Cards ==
    /\ ~panicked
    /\ pc = "idle"
    /\ last' = Call("cards", Unit, cards_of(cards), cards)
    /\ UNCHANGED <<cards, system, panicked, held, buffer, ub, written, sent, pc, driven, party>>

Length ==
    /\ ~panicked
    /\ pc = "idle"
    /\ last' = Call("len", Unit, len(cards), cards)
    /\ UNCHANGED <<cards, system, panicked, held, buffer, ub, written, sent, pc, driven, party>>

(***************************************************************************)
(* Calls on the backend: the caller reaches it through kernel().  A panic  *)
(* aborts the process.                                                     *)
(***************************************************************************)
KernelCall(op, arg, outcome) ==
    /\ ~panicked
    /\ pc = "idle"
    /\ last' = Call(op, arg, outcome, cards)
    /\ panicked' = (outcome.how = "panicked")
    /\ driven' = driven \cup {op}
    /\ UNCHANGED <<cards, system, held, buffer, ub, written, sent, pc, party>>

Read(card_id) == KernelCall("read", card_id, SystemBase_read(card_id))

ReadMut(card_id) == KernelCall("read_mut", card_id, SystemBase_read_mut(card_id))

Write(c, data) == KernelCall("write", <<c, data>>, SystemBase_write(c, data))

\* A call that has been entered and has not returned yet.
Pending == [how |-> "pending", val |-> Unit]

\* A faulty list: one Card is always in range.
CARDS_one == <<CardDefault>>

\* static _CARDS: [Card; 0] = [] (main.rs 172).
CARDS == <<>>

\* array.iter().next(): the first element of a new iterator over array.
iter_next(array) == IF array = <<>> THEN None ELSE Some(Head(array))

\* SystemBase::sense (main.rs 171-174) is entered by the caller.
Sense ==
    /\ ~panicked
    /\ pc = "idle"
    /\ pc' = "sense"
    /\ last' = Call("sense", Unit, Pending, cards)
    /\ driven' = driven \cup {"sense"}
    /\ UNCHANGED <<cards, system, panicked, held, buffer, ub, written, sent, party>>

\* One turn of while let Some(_card) = _CARDS.iter().next() {} (main.rs
\* 173): the condition builds a new iterator and takes its first element;
\* on Some the empty body runs and the condition is evaluated again, on
\* None sense returns.
SenseLoop ==
    /\ pc = "sense"
    /\ pc' = IF iter_next(CARDS).some THEN "sense" ELSE "idle"
    /\ last' = IF iter_next(CARDS).some THEN last
               ELSE [last EXCEPT !.ret = Returned(Unit)]
    /\ UNCHANGED <<cards, system, panicked, held, buffer, ub, written, sent,
                   driven, party>>

\* NfcService::kernel (main.rs 230-232): a reference to the backend held.
Kernel ==
    /\ ~panicked
    /\ pc = "idle"
    /\ last' = Call("kernel", Unit, kernel(system), cards)
    /\ UNCHANGED <<cards, system, panicked, held, buffer, ub, written, sent,
                   pc, driven, party>>

Next ==
    \/ \E c \in RegCards : Put(c)
    \/ \E id \in RegIds : Unbind(id)
    \/ \E id \in RegIds : Get(id)
    \/ \E id \in RegIds : Contains(id)
    \/ Cards
    \/ Length
    \/ \E id \in RegIds : Read(id)
    \/ \E id \in RegIds : ReadMut(id)
    \/ \E c \in RegCards, data \in {<<>>, <<"0">>} : Write(c, data)
    \/ Sense
    \/ SenseLoop
    \/ Kernel

Spec == Init /\ [][Next]_vars

\* A call that has been entered keeps running: the thread that executes
\* sense is scheduled until the loop is left and sense returns.
LiveSpec == Spec /\ WF_pc(SenseLoop)

(***************************************************************************)
(* The Card codec's operations.  A caller builds a Card or receives a      *)
(* buffer, encodes and decodes, and drops what it holds before it starts   *)
(* again.                                                                  *)
(***************************************************************************)
Idle == held = NoCard /\ buffer = NoBytes

\* Where a buffer that as_bytes or try_into produced came from.
EncodedFrom(c, by) ==
    [shape |-> by, id |-> c.id, id_form |-> "",
     permissions |-> c.permissions, permissions_form |-> "",
     permissions_string |-> TRUE]

\* Card::new (main.rs 64-66).
New(id, permissions) ==
    /\ ~panicked /\ ~ub
    /\ Idle
    /\ held' = CardNew(id, permissions)
    /\ last' = Call("new", <<id, permissions>>, held', cards)
    /\ UNCHANGED <<cards, system, panicked, buffer, ub, written, sent, pc, driven, party>>

\* A buffer arrives from the hardware layer.
Receive(shape, i, p) ==
    /\ ~panicked /\ ~ub
    /\ Idle
    /\ buffer' = Buffer(shape, i.text, p.text)
    /\ sent' = Sent(shape, i, p)
    /\ last' = Call("receive", Unit, Unit, cards)
    /\ UNCHANGED <<cards, system, panicked, held, ub, written, pc, driven, party>>

\* Every value of a u8, as the character a buffer holds for it.
Byte ==
    ControlChars \cup {Printable[n] : n \in 1..Len(Printable)} \cup {Del}
        \cup {HighByte[n] : n \in 1..Len(HighByte)}

\* The undefined outcomes the model enumerates hold at most this many bytes.
MaxUndefinedLen == 2

\* Card::as_bytes (main.rs 91-96): to_vec(self).unwrap_unchecked().  On an
\* Err the behaviour is undefined, and any outcome is a build's: a build
\* with debug assertions aborts the process on the violated precondition
\* and returns no buffer; a release build goes on with whatever Vec<u8> it
\* reads out of the Err, of any length (none, a few bytes, more than any
\* buffer holds) and any contents.  The outcomes are the abort and every
\* sequence of bytes.
unwrap_unchecked(r) ==
    IF r.ok THEN {[undefined |-> FALSE, aborted |-> FALSE, bytes |-> r.val]}
    ELSE {[undefined |-> TRUE, aborted |-> TRUE, bytes |-> <<>>]}
         \cup [undefined : {TRUE}, aborted : {FALSE}, bytes : Seq(Byte)]

as_bytes(c) == unwrap_unchecked(to_vec(c))

\* The outcomes of as_bytes that AsBytes steps to: all of them when to_vec
\* gave Ok, and of the undefined ones the abort and every Vec of at most
\* MaxUndefinedLen bytes.
as_bytes_outcomes(c) ==
    IF to_vec(c).ok THEN as_bytes(c)
    ELSE {out \in {[undefined |-> TRUE, aborted |-> TRUE, bytes |-> <<>>]}
                    \cup [undefined : {TRUE}, aborted : {FALSE},
                          bytes : UNION {[1..n -> Byte] : n \in 0..MaxUndefinedLen}] :
             out \in as_bytes(c)}

\* What a process does after undefined behaviour is not defined by the
\* source: ub records that it happened, and the process is followed no
\* further.
AsBytes ==
    /\ ~panicked /\ ~ub
    /\ held # NoCard
    /\ IF Unwinds(to_vec(held))
       THEN /\ panicked' = TRUE
            /\ last' = Call("as_bytes", held, to_vec(held), cards)
            /\ UNCHANGED <<buffer, ub, sent>>
       ELSE \E out \in as_bytes_outcomes(held) :
                /\ ub' = (ub \/ out.undefined)
                /\ panicked' = out.aborted
                /\ buffer' = IF out.aborted THEN buffer ELSE out.bytes
                /\ sent' = IF out.aborted THEN sent
                           ELSE EncodedFrom(held, "as_bytes")
                /\ last' = Call("as_bytes", held,
                                IF out.aborted
                                THEN [ok |-> FALSE,
                                      abort |-> "unsafe precondition(s) violated"]
                                ELSE out.bytes,
                                cards)
    /\ UNCHANGED <<cards, system, held, written, pc, driven, party>>

\* TryInto<Vec<u8>> for Card (main.rs 118-133).
Converted(r) ==
    /\ last' = Call("try_into", held, r, cards)
    /\ buffer' = IF r.ok THEN r.val ELSE buffer
    /\ sent' = IF r.ok THEN EncodedFrom(held, "try_into") ELSE sent
    /\ panicked' = Unwinds(r)

TryInto ==
    /\ ~panicked /\ ~ub
    /\ held # NoCard
    /\ Converted(try_into(held))
    /\ UNCHANGED <<cards, system, held, ub, written, pc, driven, party>>

\* Card::from_bytes / Card::try_from on the buffer held (main.rs 86-109);
\* the caller keeps the Card it gets.
Decoded(r) ==
    /\ last' = Call("try_from", buffer, r, cards)
    /\ held' = IF r.ok THEN r.val ELSE held

TryFrom ==
    /\ ~panicked /\ ~ub
    /\ buffer # NoBytes
    /\ Decoded(from_bytes(buffer))
    /\ UNCHANGED <<cards, system, panicked, buffer, ub, written, sent, pc, driven, party>>

\* The caller drops the Card and the buffer it holds.
Drop ==
    /\ ~panicked /\ ~ub
    /\ ~Idle
    /\ held' = NoCard
    /\ buffer' = NoBytes
    /\ sent' = NotSent
    /\ last' = NoCall
    /\ UNCHANGED <<cards, system, panicked, ub, written, pc, driven, party>>

CodecNext ==
    \/ \E id \in CodecIds, p \in CodecPermissions : New(id, p)
    \/ \E shape \in Shapes, i \in IdTexts, p \in PermissionsTexts :
           Receive(shape, i, p)
    \/ AsBytes
    \/ TryInto
    \/ TryFrom
    \/ Drop

CodecSpec == Init /\ [][CodecNext]_vars

(***************************************************************************)
(* The operations on a Permissions value and Card::is.  The caller builds a *)
(* Card, applies one operation to its permissions and a second value, and  *)
(* drops the Card.                                                         *)
(***************************************************************************)
\* self.permissions().op(other): op is handed copies and returns a new value.
Apply(op, other, result) ==
    /\ held # NoCard
    /\ last.op = "new"
    /\ last' = Call(op, <<held.permissions, other>>, result, cards)
    /\ UNCHANGED <<cards, system, panicked, held, buffer, ub, written, sent,
                   pc, driven, party>>

Union(other) == Apply("union", other, union(held.permissions, other))

Intersection(other) ==
    Apply("intersection", other, intersection(held.permissions, other))

Difference(other) == Apply("difference", other, difference(held.permissions, other))

SymmetricDifference(other) ==
    Apply("symmetric_difference", other,
          symmetric_difference(held.permissions, other))

PermissionsContains(other) ==
    Apply("contains", other, contains(held.permissions, other))

\* Card::is (main.rs 82-84).
Is(perms) == Apply("is", perms, CardIs(held, perms))

\* Permissions::privileged() (main.rs 31-37).
Privileged ==
    /\ Idle
    /\ last' = Call("privileged", Unit, privileged, cards)
    /\ UNCHANGED <<cards, system, panicked, held, buffer, ub, written, sent,
                   pc, driven, party>>

PermissionsNext ==
    \/ \E p \in CodecPermissions : New(0, p)
    \/ \E other \in CodecPermissions : Union(other)
    \/ \E other \in CodecPermissions : Intersection(other)
    \/ \E other \in CodecPermissions : Difference(other)
    \/ \E other \in CodecPermissions : SymmetricDifference(other)
    \/ \E other \in CodecPermissions : PermissionsContains(other)
    \/ \E perms \in CodecPermissions : Is(perms)
    \/ Privileged
    \/ Drop

PermissionsSpec == Init /\ [][PermissionsNext]_vars

(***************************************************************************)
(* Properties of the Card codec, checked under CodecSpec.                  *)
(***************************************************************************)
\* C1: Round-trip.  For every Card made of any id and only recognized flags,
\* from_bytes / try_from applied to the buffer as_bytes gave for it returns
\* Ok with a Card equal to it.
RoundTrip ==
    (last.op = "try_from" /\ sent.shape = "as_bytes"
         /\ contains(all, sent.permissions))
        => last.ret = Ok(Card(sent.id, sent.permissions))

\* The largest id with the full set went through as_bytes and from_bytes.
RoundTripWitness ==
    /\ last.op = "try_from"
    /\ sent.shape = "as_bytes"
    /\ sent.id = U16Max
    /\ sent.permissions = all
    /\ held = Card(U16Max, all)

\* C2: Decode rejects unknown permission bits.  For every buffer whose
\* permissions field denotes a value with a bit outside the six recognized
\* flags, try_from returns Err, and no Card that try_from returns holds an
\* unrecognized bit.
DecodeRejectsUnknownBits ==
    last.op = "try_from" =>
        /\ (sent.permissions >= 0 /\ ~contains(all, sent.permissions))
               => ~last.ret.ok
        /\ last.ret.ok => contains(all, last.ret.val.permissions)

\* C5: Encoding never fails.  For every Card that Card::new or a successful
\* decode can build, as_bytes gets Ok from to_vec, so that the branch
\* unwrap_unchecked assumes unreachable is never taken, and try_into never
\* returns a ConversionError; neither of them panics.
EncodingNeverFails ==
    /\ ~ub
    /\ ~panicked
    /\ last.op = "as_bytes" => to_vec(last.arg).ok /\ last.ret = to_vec(last.arg).val
    /\ last.op = "try_into" => last.ret.ok

\* as_bytes encoded a Card with an unrecognized bit that only a decode
\* builds in this model.
EncodingNeverFailsWitness ==
    /\ last.op = "as_bytes"
    /\ last.arg.permissions = 130
    /\ ~contains(all, last.arg.permissions)
    /\ buffer = last.ret

\* C6: Decode failure reporting.  For every buffer that is not a well-formed
\* Card encoding, try_from returns Err with a ConversionError whose bytes
\* are the whole buffer and whose message is not empty; it returns Ok only
\* for a well-formed buffer, and then with the Card the buffer denotes.  A
\* well-formed buffer is one object of the two fields id and permissions,
\* the id a number in 0..65535, the permissions a string of flags that
\* denotes recognized bits only.
DecodeFailureReporting ==
    (last.op = "try_from" /\ sent.shape \in Shapes) =>
        IF /\ sent.shape \in {"object", "spaced", "swapped"}
           /\ sent.id \in 0..U16Max
           /\ sent.permissions_string
           /\ sent.permissions >= 0
           /\ contains(all, sent.permissions)
        THEN last.ret.ok => last.ret.val = Card(sent.id, sent.permissions)
        ELSE /\ ~last.ret.ok
             /\ last.ret.err.bytes = last.arg
             /\ last.ret.err.message # ""

(***************************************************************************)
(* The operations of a Party (src/main.rs 57-164).                         *)
(***************************************************************************)
PartyCall(op, arg, ret, self) ==
    /\ last' = Call(op, <<party, arg>>, ret, cards)
    /\ party' = self
    /\ UNCHANGED <<cards, system, panicked, held, buffer, ub, written, sent,
                   pc, driven>>

NewParty(leader) ==
    /\ party = NoParty
    /\ PartyCall("new", leader, Unit, Party_new(leader))

Join(class) ==
    /\ party # NoParty
    /\ Len(party.players) < MaxPlayers
    /\ PartyCall("join", class, Unit, join(party, class))

Leave(class) ==
    /\ party # NoParty
    /\ PartyCall("leave", class, Unit, leave(party, class))

PromoteNextPlayer ==
    /\ party # NoParty
    /\ PartyCall("promote_next_player", Unit, promote_next_player(party).result,
                 promote_next_player(party).self)

Leader ==
    /\ party # NoParty
    /\ PartyCall("leader", Unit, Party_leader(party), party)

PartyNext ==
    \/ \E leader \in Class : NewParty(leader)
    \/ \E class \in Class : Join(class)
    \/ \E class \in Class : Leave(class)
    \/ PromoteNextPlayer
    \/ Leader

PartySpec == Init /\ [][PartyNext]_vars

(***************************************************************************)
(* Properties of the registry and of the backend, checked under Spec.      *)
(***************************************************************************)
\* C3: Registry identity invariant.  In every state reachable by put and
\* unbind calls, every entry (k, c) of cards has k = c.id.
RegistryIdentity == \A k \in DOMAIN cards : cards[k].id = k

\* An unbind removed an entry and two or more entries remain.
RegistryIdentityWitness ==
    /\ last.op = "unbind"
    /\ last.ret.some
    /\ Cardinality(DOMAIN cards) >= 2

\* C4: Overwrite semantics.  put returns and does not abort; after it get of
\* the id returns the Card put.  When the last put or unbind that named an id
\* was a put, get(id) returns the Card of that put, whatever Card the entry
\* held before.
LastWriteWins ==
    /\ last.op = "put" =>
           /\ last.ret = Unit
           /\ ~panicked
           /\ get(cards, last.arg.id) = Some(last.arg)
    /\ \A id \in RegIds :
           written[id].kind = "put" => get(cards, id) = Some(written[id].card)
    /\ (last.op = "get" /\ written[last.arg].kind = "put")
           => last.ret = Some(written[last.arg].card)

\* get(id) was called after a put that replaced a different Card under id.
LastWriteWinsWitness ==
    /\ last.op = "get"
    /\ written[last.arg].kind = "put"
    /\ written[last.arg].overwrote
    /\ last.ret.some

\* C7: unbind(id).  If an entry of id is present, unbind(id) returns Some of
\* the Card last put under id, and afterwards get(id) is None and
\* contains(id) is false; if none is present it returns None and the
\* registry is unchanged.
UnbindRemoves ==
    last.op = "unbind" =>
        IF last.arg \in DOMAIN last.before
        THEN /\ last.ret = Some(last.before[last.arg])
             /\ last.ret = Some(written[last.arg].card)
             /\ get(cards, last.arg) = None
             /\ ~contains_id(cards, last.arg)
        ELSE /\ last.ret = None
             /\ cards = last.before

\* unbind removed the entry of an id whose Card had been replaced by a put.
UnbindRemovesWitness ==
    /\ last.op = "unbind"
    /\ last.arg \in DOMAIN last.before
    /\ last.ret.some
    /\ last.ret.val.permissions = union(REGULAR, ADMIN)
    /\ DOMAIN cards # {}

\* C8: cards() export.  cards() returns the stored Cards, one for each id
\* present, none twice and none missing, in strictly ascending order of the
\* ids, and as many as len() counts.
CardsExport ==
    last.op = "cards" =>
        /\ Len(last.ret) = len(cards)
        /\ \A i \in 1..Len(last.ret) :
               /\ last.ret[i].id \in DOMAIN cards
               /\ cards[last.ret[i].id] = last.ret[i]
        /\ \A id \in DOMAIN cards : \E i \in 1..Len(last.ret) : last.ret[i] = cards[id]
        /\ \A i, j \in 1..Len(last.ret) : i < j => last.ret[i].id < last.ret[j].id

\* cards() exported two or more Cards, the largest id among them.
CardsExportWitness ==
    /\ last.op = "cards"
    /\ Len(last.ret) >= 2
    /\ last.ret[Len(last.ret)].id = U16Max

\* C9: Lookup consistency.  For every id, get(id) is None exactly when id is
\* absent, contains(id) is true exactly when get(id) is Some, and id is
\* present exactly when the last put or unbind that named it was a put.
LookupConsistency ==
    /\ \A id \in RegIds :
           /\ (get(cards, id) = None) <=> (id \notin DOMAIN cards)
           /\ contains_id(cards, id) <=> get(cards, id).some
           /\ (id \in DOMAIN cards) <=> (written[id].kind = "put")
    /\ last.op = "get" => (last.ret.some <=> written[last.arg].kind = "put")
    /\ last.op = "contains" => (last.ret <=> written[last.arg].kind = "put")

\* contains(id) was called for an id that an unbind named last, while
\* another id is present.
LookupConsistencyWitness ==
    /\ last.op = "contains"
    /\ written[last.arg].kind = "unbind"
    /\ written[last.arg].card # NoCard
    /\ \E id \in RegIds : written[id].kind = "put"

\* C10: The backend SystemBase fails with an error value.  read, read_mut
\* and write return Err(KernelError) and never abort the process.
BackendFailsWithErrorValue ==
    /\ ~panicked
    /\ last.op \in {"read", "read_mut", "write"} =>
           /\ last.ret.how = "returned"
           /\ ~last.ret.val.ok

\* C11: sense() on SystemBase terminates.  With no cards in range (_CARDS
\* is empty) every call of sense that has been entered returns.
SenseTerminates ==
    (pc = "sense") ~> (pc = "idle" /\ last.op = "sense" /\ last.ret = Returned(Unit))

\* sense was called on a registry that holds a Card, and it has returned.
SenseTerminatesWitness ==
    /\ pc = "idle"
    /\ last.op = "sense"
    /\ last.ret = Returned(Unit)
    /\ iter_next(CARDS) = None
    /\ DOMAIN cards # {}

\* C12: The registry never drives the backend.  The registry starts with
\* the backend it was constructed with and no operation of the backend
\* invoked; no step changes the backend held; and a step of put, get,
\* unbind, contains, cards, len or kernel invokes no operation of the
\* backend: it starts no call of it and does not abort as read, read_mut
\* and write do.
RegistryNeverDrivesBackend ==
    /\ system = new_in(SystemBase).system
    /\ driven = {}
    /\ [][/\ system' = system
          /\ last'.op \in {"put", "get", "unbind", "contains", "cards", "len", "kernel"}
                 => (driven' = driven /\ pc' = "idle" /\ ~panicked')]_vars

\* After puts and an unbind, kernel() hands out the backend the registry
\* was constructed with, and no operation of the backend has been invoked.
RegistryNeverDrivesBackendWitness ==
    /\ last.op = "kernel"
    /\ last.ret = SystemBase
    /\ driven = {}
    /\ \E id \in RegIds : written[id].kind = "unbind"
    /\ \E id \in RegIds : written[id].kind = "put" /\ written[id].overwrote

\* C16: put and unbind are the only writers.  A step of get, contains,
\* cards, len or kernel leaves the cards map as it was, and the result it
\* gave is the result the same call gives in the state it leaves: reader
\* calls in any order repeat their results.
ReadersDoNotWrite ==
    /\ [](/\ last.op = "get" => last.ret = get(cards, last.arg)
          /\ last.op = "contains" => last.ret = contains_id(cards, last.arg)
          /\ last.op = "cards" => last.ret = cards_of(cards)
          /\ last.op = "len" => last.ret = len(cards)
          /\ last.op = "kernel" => last.ret = kernel(system))
    /\ [][last'.op \in {"get", "contains", "cards", "len", "kernel"}
              => (cards' = cards /\ last'.before = cards)]_vars

\* len() was called on a registry of two or more Cards and counted them.
ReadersDoNotWriteWitness ==
    /\ last.op = "len"
    /\ last.ret >= 2
    /\ last.before = cards

\* C17: Writers touch only the named id.  A step of put(card) leaves the
\* entry of every id other than card.id as it was, a step of unbind(id)
\* leaves the entry of every other id as it was, and the permissions
\* stored under an id change only in a step of put with that id.
WritersTouchOnlyNamedId ==
    [][/\ last'.op = "put" =>
              \A id \in RegIds \ {last'.arg.id} : get(cards', id) = get(cards, id)
       /\ last'.op = "unbind" =>
              \A id \in RegIds \ {last'.arg} : get(cards', id) = get(cards, id)
       /\ \A id \in (DOMAIN cards) \cap (DOMAIN cards') :
              cards'[id].permissions # cards[id].permissions
                  => (last'.op = "put" /\ last'.arg.id = id)]_vars

\* put replaced the permissions of an id while another id was present.
WritersTouchOnlyNamedIdWitness ==
    /\ last.op = "put"
    /\ last.arg.id \in DOMAIN last.before
    /\ last.before[last.arg.id].permissions # last.arg.permissions
    /\ Cardinality(DOMAIN cards) >= 2

\* C18: Size accounting.  A registry starts with len() = 0; in every state
\* len() is the number of ids present; put(card) adds 1 to it when card.id
\* was absent and nothing when it was present; unbind(id) takes 1 from it
\* when id was present and nothing otherwise.
SizeAccounting ==
    /\ (\A id \in RegIds : written[id].kind = "none") => len(cards) = 0
    /\ len(cards) = Cardinality({id \in RegIds : contains_id(cards, id)})
    /\ last.op = "len" => last.ret = Cardinality({id \in RegIds : contains_id(cards, id)})
    /\ last.op = "put" =>
           len(cards) = len(last.before)
                        + (IF contains_id(last.before, last.arg.id) THEN 0 ELSE 1)
    /\ last.op = "unbind" =>
           len(cards) = len(last.before)
                        - (IF contains_id(last.before, last.arg) THEN 1 ELSE 0)

\* unbind removed one of two entries.
SizeAccountingWitness ==
    /\ last.op = "unbind"
    /\ contains_id(last.before, last.arg)
    /\ len(last.before) = 2
    /\ len(cards) = 1

(***************************************************************************)
(* Properties of Permissions and Card::is, checked under PermissionsSpec.  *)
(***************************************************************************)
\* C13: privileged() is the set of all recognized capabilities except NONE:
\* it does not contain NONE, it contains each of REGULAR, IT_SUPPORT,
\* OPEN_DOORS, ADMIN and SUPER_ADMIN, and it has no unrecognized bit.
PrivilegedExcludesNone ==
    last.op = "privileged" =>
        /\ ~contains(last.ret, NONE)
        /\ \A flag \in {REGULAR, IT_SUPPORT, OPEN_DOORS, ADMIN, SUPER_ADMIN} :
               contains(last.ret, flag)
        /\ contains(all, last.ret)
        /\ BitSet(last.ret) = 1..5

\* privileged() was called and returned the bits 1 to 5.
PrivilegedExcludesNoneWitness ==
    /\ last.op = "privileged"
    /\ last.ret = 62

\* C14: Set algebra laws.  For all Permissions a and b (those over the six
\* recognized flags among them) a.union(b) contains a and contains b, a
\* intersected with itself is a, and after each operation the Card that
\* gave a still has the permissions a.
SetAlgebraLaws ==
    /\ last.op = "union" =>
           /\ contains(last.ret, last.arg[1])
           /\ contains(last.ret, last.arg[2])
    /\ (last.op = "intersection" /\ last.arg[2] = last.arg[1])
           => last.ret = last.arg[1]
    /\ last.op \in {"union", "intersection", "difference", "symmetric_difference",
                    "contains"}
           => held.permissions = last.arg[1]

\* The union of two recognized sets that overlap and differ was taken.
SetAlgebraLawsWitness ==
    /\ last.op = "union"
    /\ last.arg[1] = union(NONE, ADMIN)
    /\ last.arg[2] = union(ADMIN, SUPER_ADMIN)
    /\ last.ret = 49

\* C15: Card::is(perms) is true if and only if every bit of perms is set in
\* the permissions of the card: is(empty) is true for every card, and
\* is(NONE) is true only for a card whose permissions have the bit of NONE.
IsContainsAll ==
    last.op = "is" =>
        /\ last.ret = (BitSet(last.arg[2]) \subseteq BitSet(held.permissions))
        /\ last.arg[2] = empty => last.ret
        /\ last.arg[2] = NONE => (last.ret <=> 0 \in BitSet(held.permissions))

\* is(NONE) was asked of a card whose permissions are REGULAR, and was false.
IsContainsAllWitness ==
    /\ last.op = "is"
    /\ last.arg[2] = NONE
    /\ held.permissions = REGULAR
    /\ last.ret = FALSE

(***************************************************************************)
(* Properties of a Party, checked under PartySpec.                         *)
(***************************************************************************)
\* C19: Party leader invariant.  In every state reached from Party::new by
\* join, leave and promote_next_player, leader() returns the player at
\* index 0, and that player is equal to the leader field whenever the party
\* has players; promote_next_player returns an error and leaves players
\* as they were when there is no second player.
PartyLeaderInvariant ==
    /\ (party # NoParty /\ party.players # <<>>) =>
           /\ Party_leader(party) = Some(party.players[1])
           /\ party.players[1] = party.leader
    /\ (last.op = "leader" /\ party.players # <<>>) =>
           (last.ret.some /\ last.ret.val = party.players[1])
    /\ (last.op = "promote_next_player" /\ Len(last.arg[1].players) < 2) =>
           (~last.ret.ok /\ party.players = last.arg[1].players)

====
